---- MODULE Spec2Model ----
(***************************************************************************)
(* TLDetector (ros/src/tl_detector/tl_detector.py): the traffic-light      *)
(* detector node.  Three subscriber callbacks (pose_cb, waypoints_cb,      *)
(* traffic_cb) write the latest pose, path and light set; image_cb runs    *)
(* process_traffic_lights on every camera frame and feeds the result to    *)
(* the debouncer that publishes the stop waypoint.                         *)
(*                                                                         *)
(* Python values: None is the empty tuple <<>> and a present value v is    *)
(* <<v>>; path indices are Python's, counted from 0.                       *)
(***************************************************************************)
EXTENDS Integers, Sequences, FiniteSets, TLC

VARIABLES
    pose,            \* self.pose: None or <<[x, y]>>
    waypoints,       \* self.waypoints: None or <<m>>, the latest Lane message m
    waypoints_2d,    \* self.waypoints_2d: None or <<m>>, the points of message m
    waypoint_tree,   \* self.waypoint_tree: None or <<m>>, the KDTree of those points
    lights,          \* self.lights: the latest TrafficLightArray.lights
    config,          \* self.config['stop_line_positions']
    has_image,       \* self.has_image
    state,           \* self.state
    last_state,      \* self.last_state
    last_wp,         \* self.last_wp
    state_count,     \* self.state_count
    pc,              \* position of the frame handler image_cb
    f_pose,          \* the self.pose that the test of line 161 saw
    f_x,             \* the x read from self.pose (line 162)
    f_y,             \* the y read from self.pose (line 162)
    loop,            \* the loop of lines 185-194: its list, its position, its locals
    car_position,    \* local car_position of process_traffic_lights
    sel,             \* what get_closest_light_in_front saw and returned
    ret,             \* what process_traffic_lights returned to the last frame
    pub,             \* the values the last finished frame published
    err,             \* the exception that ended the last finished frame
    calls,           \* the calls the frame has made so far
    hist             \* history of the debouncer's inputs (for the properties)

vars == <<pose, waypoints, waypoints_2d, waypoint_tree, lights, config, has_image,
          state, last_state, last_wp, state_count, pc, f_pose, f_x, f_y, loop,
          car_position, sel, ret, pub, err, calls, hist>>

shared == <<pose, waypoints, waypoints_2d, waypoint_tree, lights>>
debouncer == <<state, last_state, last_wp, state_count>>
locals == <<f_pose, f_x, f_y, loop, car_position, sel>>

----------------------------------------------------------------------------
(* Program constants and values *)

STATE_COUNT_THRESHOLD == 3
WAYPOINT_LOOKAHEAD == 100

RED == "RED"
YELLOW == "YELLOW"
GREEN == "GREEN"
UNKNOWN == "UNKNOWN"
Colors == {RED, YELLOW, GREEN, UNKNOWN}

None == <<>>
Some(v) == <<v>>
Val(o) == o[1]

\* The exceptions a frame can end with.
NoError == "none"
AttributeError == "AttributeError"
IndexError == "IndexError"
ClassifierError == "ClassifierError"

----------------------------------------------------------------------------
(* Bounds and the inputs the environment delivers *)

\* image_cb's state_count grows without bound while one color repeats; frames
\* that would raise it past MaxCount are not delivered.
MaxCount == 5
\* The longest light array delivered.
MaxLights == 2
\* The longest alternation the history counts (it saturates there).
MaxAlt == 3

\* The Lane messages delivered: message m carries a path of m equally spaced
\* points on a line.  The state holds a message by its name m.
Lanes == {60, 160}
Path(m) == [i \in 1..m |-> [x |-> 3 * (i - 1), y |-> 0]]

\* Vehicle poses: nearest to path points 2 and 50.
Poses == {[x |-> 7, y |-> 0], [x |-> 150, y |-> 1]}

\* Stop lines: nearest to path points 5, 7, 7, 150 and 152 (on the shorter path
\* the last two are nearest to its last point, 59).
s5 == [x |-> 15, y |-> 1]
s7 == [x |-> 22, y |-> 0]
s7b == [x |-> 20, y |-> 1]
s150 == [x |-> 449, y |-> 0]
s152 == [x |-> 456, y |-> 0]
Configs == {<<>>, <<s7>>, <<s5>>, <<s152>>, <<s7, s7b>>, <<s150, s5>>}

\* A delivered light array of n lights; its lights are told apart by the
\* message they came in and their position in it.
LightArray(n) == [k \in 1..n |-> [msg |-> n, k |-> k]]
LightArrays == {LightArray(n) : n \in 0..MaxLights}

----------------------------------------------------------------------------
(* WaypointIndex *)

Dist2(a, b) == (a.x - b.x) * (a.x - b.x) + (a.y - b.y) * (a.y - b.y)

\* The nearest of pts[lo..hi] to p, the lowest index among equally near points.
\* The search splits the range in halves, as the tree splits the points.
RECURSIVE NearestIn(_, _, _, _)
NearestIn(pts, p, lo, hi) ==
    IF lo = hi THEN lo
    ELSE LET mid == (lo + hi) \div 2
             l == NearestIn(pts, p, lo, mid)
             r == NearestIn(pts, p, mid + 1, hi)
         IN  IF Dist2(pts[r], p) < Dist2(pts[l], p) THEN r ELSE l

\* The positions the node is asked about: the stop lines and the poses (with
\* the x of one pose and the y of another, should two reads see two poses).
Queries == {s5, s7, s7b, s150, s152}
             \cup {[x |-> a.x, y |-> b.y] : a \in Poses, b \in Poses}

\* The index of each tree, worked out once for the positions asked about.
Nearest == [m \in Lanes |-> [p \in Queries |-> NearestIn(Path(m), p, 1, m)]]

\* get_closest_waypoint counting the points of the path from 1.
get_closest_waypointFromOne(tree, x, y) == Nearest[Val(tree)][[x |-> x, y |-> y]]

\* self.waypoint_tree.query([x, y], 1)[1] on a built tree: the index, from 0.
get_closest_waypoint(tree, x, y) == Nearest[Val(tree)][[x |-> x, y |-> y]] - 1

\* len(self.waypoints.waypoints)
NumPoints(wps) == Len(Path(Val(wps)))

----------------------------------------------------------------------------
(* LightProjector *)

\* InFront without its lower bound.
InFrontNoSign(distance, diff) == distance < diff

\* The test of line 191: the stop line is ahead and closer than the best so far.
InFront(distance, diff) == 0 <= distance /\ distance < diff

\* The body of the loop (lines 186-194) for light i.  stop_line_positions[i]
\* beyond the end of the list raises IndexError.
LoopBody(i, acc, car, stop_line_positions, lts, tree) ==
    IF i > Len(stop_line_positions) THEN [acc EXCEPT !.err = IndexError]
    ELSE LET line == stop_line_positions[i]
             temp_wp_idx == get_closest_waypoint(tree, line.x, line.y)
             distance == temp_wp_idx - car
         IN  IF InFront(distance, acc.diff)
             THEN [acc EXCEPT !.diff = distance,
                              !.light = Some(lts[i]),
                              !.idx = Some(temp_wp_idx)]
             ELSE acc

\* The loop of lines 185-194 run without interruption, from light i on.
RECURSIVE LightLoop(_, _, _, _, _, _)
LightLoop(i, acc, car, stop_line_positions, lts, tree) ==
    IF i > Len(lts) \/ acc.err # NoError THEN acc
    ELSE LightLoop(i + 1, LoopBody(i, acc, car, stop_line_positions, lts, tree),
                   car, stop_line_positions, lts, tree)

\* The list the loop goes through, re-reading self.lights at every pass.
LoopLightsLive(snapshot, current) == current

\* The list the loop goes through: enumerate(self.lights) reads self.lights
\* once (line 185) and keeps that list whatever traffic_cb stores later.
LoopLights(snapshot, current) == snapshot

\* get_closest_light_in_front: (closest_light, diff, line_wp_idx), or the
\* exception it raised.
get_closest_light_in_front(car, stop_line_positions, wps, lts, tree) ==
    IF wps = None THEN [err |-> AttributeError, light |-> None, diff |-> 0, idx |-> None]
    ELSE LightLoop(1, [err |-> NoError, light |-> None,
                       diff |-> NumPoints(wps), idx |-> None],
                   car, stop_line_positions, lts, tree)

\* PoseKnown without the test.
PoseKnownAlways(p) == TRUE

\* The test of line 161.
PoseKnown(p) == p # None

\* InLookahead with the window closed at its far end.
InLookaheadInclusive(closest_light, distance) ==
    closest_light # None /\ distance <= WAYPOINT_LOOKAHEAD

\* The test of line 168.
InLookahead(closest_light, distance) ==
    closest_light # None /\ distance < WAYPOINT_LOOKAHEAD

\* light_classifier.get_classification: a color, or it throws.
Throws == "throws"
get_classification == Colors \cup {Throws}

----------------------------------------------------------------------------
(* StateDebouncer: lines 102-112 of image_cb *)

\* DebounceStep committing as soon as a color repeats once.
DebounceStepEager(d, light_wp, st) ==
    IF d.state # st
    THEN [state |-> st, state_count |-> 0 + 1, last_state |-> d.last_state,
          last_wp |-> d.last_wp, pub |-> <<>>, branch |-> "change"]
    ELSE IF d.state_count >= 1
    THEN LET wp == IF st = RED THEN light_wp ELSE -1
         IN  [state |-> d.state, state_count |-> d.state_count + 1,
              last_state |-> d.state, last_wp |-> wp, pub |-> <<wp>>,
              branch |-> "commit"]
    ELSE [state |-> d.state, state_count |-> d.state_count + 1,
          last_state |-> d.last_state, last_wp |-> d.last_wp,
          pub |-> <<d.last_wp>>, branch |-> "republish"]

\* DebounceStep without hysteresis: a changed color is taken up at once.
DebounceStepNoHysteresis(d, light_wp, st) ==
    IF d.state # st \/ d.state_count >= STATE_COUNT_THRESHOLD
    THEN LET wp == IF st = RED THEN light_wp ELSE -1
         IN  [state |-> st,
              state_count |-> IF d.state # st THEN 1 ELSE d.state_count + 1,
              last_state |-> st, last_wp |-> wp, pub |-> <<wp>>,
              branch |-> IF d.state # st THEN "change" ELSE "commit"]
    ELSE [state |-> d.state, state_count |-> d.state_count + 1,
          last_state |-> d.last_state, last_wp |-> d.last_wp,
          pub |-> <<d.last_wp>>, branch |-> "republish"]

\* DebounceStep with lines 107 and 108 swapped: last_wp keeps the raw index.
DebounceStepRawWp(d, light_wp, st) ==
    IF d.state # st
    THEN [state |-> st, state_count |-> 0 + 1, last_state |-> d.last_state,
          last_wp |-> d.last_wp, pub |-> <<>>, branch |-> "change"]
    ELSE IF d.state_count >= STATE_COUNT_THRESHOLD
    THEN LET wp == IF st = RED THEN light_wp ELSE -1
         IN  [state |-> d.state, state_count |-> d.state_count + 1,
              last_state |-> d.state, last_wp |-> light_wp, pub |-> <<wp>>,
              branch |-> "commit"]
    ELSE [state |-> d.state, state_count |-> d.state_count + 1,
          last_state |-> d.last_state, last_wp |-> d.last_wp,
          pub |-> <<d.last_wp>>, branch |-> "republish"]

\* DebounceStep without the RED test of line 108: any committed color stores
\* and publishes the stop-line index.
DebounceStepNoRedFilter(d, light_wp, st) ==
    IF d.state # st
    THEN [state |-> st, state_count |-> 0 + 1, last_state |-> d.last_state,
          last_wp |-> d.last_wp, pub |-> <<>>, branch |-> "change"]
    ELSE IF d.state_count >= STATE_COUNT_THRESHOLD
    THEN [state |-> d.state, state_count |-> d.state_count + 1,
          last_state |-> d.state, last_wp |-> light_wp, pub |-> <<light_wp>>,
          branch |-> "commit"]
    ELSE [state |-> d.state, state_count |-> d.state_count + 1,
          last_state |-> d.last_state, last_wp |-> d.last_wp,
          pub |-> <<d.last_wp>>, branch |-> "republish"]

\* DebounceStep without line 112: state_count is never incremented.
DebounceStepNoCount(d, light_wp, st) ==
    IF d.state # st
    THEN [state |-> st, state_count |-> 0 + 1, last_state |-> d.last_state,
          last_wp |-> d.last_wp, pub |-> <<>>, branch |-> "change"]
    ELSE IF d.state_count >= STATE_COUNT_THRESHOLD
    THEN LET wp == IF st = RED THEN light_wp ELSE -1
         IN  [state |-> d.state, state_count |-> d.state_count,
              last_state |-> d.state, last_wp |-> wp, pub |-> <<wp>>,
              branch |-> "commit"]
    ELSE [state |-> d.state, state_count |-> d.state_count,
          last_state |-> d.last_state, last_wp |-> d.last_wp,
          pub |-> <<d.last_wp>>, branch |-> "republish"]

\* Lines 102-112: the step of the debouncer on the frame's (light_wp, st).
DebounceStep(d, light_wp, st) ==
    IF d.state # st
    THEN [state |-> st, state_count |-> 0 + 1, last_state |-> d.last_state,
          last_wp |-> d.last_wp, pub |-> <<>>, branch |-> "change"]
    ELSE IF d.state_count >= STATE_COUNT_THRESHOLD
    THEN LET wp == IF st = RED THEN light_wp ELSE -1
         IN  [state |-> d.state, state_count |-> d.state_count + 1,
              last_state |-> d.state, last_wp |-> wp, pub |-> <<wp>>,
              branch |-> "commit"]
    ELSE [state |-> d.state, state_count |-> d.state_count + 1,
          last_state |-> d.last_state, last_wp |-> d.last_wp,
          pub |-> <<d.last_wp>>, branch |-> "republish"]

----------------------------------------------------------------------------
(* State after __init__ (lines 28-63); the configuration is read once. *)

NoStop == [wp |-> -1, st |-> UNKNOWN]

Init ==
    /\ pose = None
    /\ waypoints = None
    /\ waypoints_2d = None
    /\ waypoint_tree = None
    /\ lights = <<>>
    /\ config \in Configs
    /\ has_image = FALSE
    /\ state = RED
    /\ last_state = RED
    /\ last_wp = -1
    /\ state_count = 0
    /\ pc = "idle"
    /\ f_pose = None
    /\ f_x = None
    /\ f_y = None
    /\ loop = None
    /\ car_position = None
    /\ sel = None
    /\ ret = None
    /\ pub = <<>>
    /\ err = NoError
    /\ calls = {}
    /\ hist = [prevObs |-> None, lastObs |-> None, runLen |-> 0, runWp |-> -1,
               altLen |-> 0, altWp |-> -1, altLs |-> RED,
               cRun |-> 0, cV |-> -1, cLs |-> RED]

----------------------------------------------------------------------------
(* The subscriber callbacks *)

\* pose_cb (lines 67-68)
pose_cb ==
    /\ \E msg \in Poses : pose' = Some(msg)
    /\ UNCHANGED <<waypoints, waypoints_2d, waypoint_tree, lights, config, has_image,
                   debouncer, pc, locals, ret, pub, err, calls, hist>>

\* waypoints_cb (lines 70-74): the 2D points and the tree are built once.
waypoints_cb ==
    /\ \E msg \in Lanes :
          /\ waypoints' = Some(msg)
          /\ IF waypoints_2d = None
             THEN waypoints_2d' = Some(msg) /\ waypoint_tree' = Some(msg)
             ELSE UNCHANGED <<waypoints_2d, waypoint_tree>>
    /\ UNCHANGED <<pose, lights, config, has_image, debouncer, pc, locals,
                   ret, pub, err, calls, hist>>

\* traffic_cb (lines 76-77)
traffic_cb ==
    /\ \E msg \in LightArrays : lights' = msg
    /\ UNCHANGED <<pose, waypoints, waypoints_2d, waypoint_tree, config, has_image,
                   debouncer, pc, locals, ret, pub, err, calls, hist>>

----------------------------------------------------------------------------
(* The frame handler image_cb (lines 79-112) *)

Min2(a, b) == IF a < b THEN a ELSE b

\* The history after a frame that reached the debouncer with observation r and
\* took step d.  A run is a sequence of frames observing one color; an
\* alternation is a sequence of frames each observing another color than the
\* frame before; a streak is a committing frame followed by frames carrying the
\* same observation.  runWp, altWp/altLs and cV/cLs are last_wp (and
\* last_state) from before the run, before the alternation and after the commit.
HistAfter(r, d) ==
    LET same == hist.prevObs = Some(r.st)
        runLen == IF same THEN Min2(hist.runLen + 1, MaxCount) ELSE 1
        cont == hist.cRun >= 1 /\ hist.lastObs = Some(r)
        commit == d.branch = "commit"
    IN  [prevObs |-> Some(r.st),
         lastObs |-> Some(r),
         runLen |-> runLen,
         runWp |-> IF runLen > STATE_COUNT_THRESHOLD + 1 THEN d.last_wp
                   ELSE IF same THEN hist.runWp ELSE last_wp,
         altLen |-> IF same THEN 0 ELSE Min2(hist.altLen + 1, MaxAlt),
         altWp |-> IF same THEN d.last_wp
                   ELSE IF hist.altLen = 0 THEN last_wp ELSE hist.altWp,
         altLs |-> IF same THEN d.last_state
                   ELSE IF hist.altLen = 0 THEN last_state ELSE hist.altLs,
         cRun |-> IF cont THEN 2 ELSE IF commit THEN 1 ELSE 0,
         cV |-> IF cont THEN hist.cV ELSE IF commit THEN d.pub[1] ELSE d.last_wp,
         cLs |-> IF cont THEN hist.cLs ELSE d.last_state]

\* process_traffic_lights returned r: lines 102-112 run and the frame ends.
\* state_count is only ever compared with STATE_COUNT_THRESHOLD; where frames
\* keep arriving it is held at MaxCount, which is no less.
Return(r) ==
    LET d == DebounceStep([state |-> state, state_count |-> state_count,
                           last_state |-> last_state, last_wp |-> last_wp],
                          r.wp, r.st)
    IN  /\ state' = d.state
        /\ state_count' = Min2(d.state_count, MaxCount)
        /\ last_state' = d.last_state
        /\ last_wp' = d.last_wp
        /\ pub' = d.pub
        /\ ret' = Some(r)
        /\ err' = NoError
        /\ hist' = HistAfter(r, d)
        /\ pc' = "done"

\* An exception e leaves process_traffic_lights and image_cb: nothing is
\* published and the debouncer is not touched.
Raise(e) ==
    /\ UNCHANGED debouncer
    /\ pub' = <<>>
    /\ ret' = None
    /\ err' = e
    /\ hist' = [hist EXCEPT !.lastObs = None, !.cRun = 0,
                            !.cV = last_wp, !.cLs = last_state]
    /\ pc' = "done"

\* Lines 92-93 and 160-164: the frame is stored and self.pose is tested.
FrameArrives ==
    /\ pc = "idle"
    /\ has_image' = TRUE
    /\ f_pose' = pose
    /\ IF PoseKnown(pose)
       THEN /\ pc' = "read_x"
            /\ UNCHANGED <<debouncer, ret, pub, err, hist>>
       ELSE Return(NoStop)
    /\ UNCHANGED <<shared, config, f_x, f_y, loop, car_position, sel, calls>>

\* A frame arrives, while state_count is below its bound.
image_cb_start == state_count < MaxCount /\ FrameArrives

\* A frame arrives, with no bound on their number.
image_cb_start_live == FrameArrives

\* Line 162, first argument: self.pose.pose.position.x
image_cb_read_x ==
    /\ pc = "read_x"
    /\ IF pose = None
       THEN Raise(AttributeError) /\ UNCHANGED f_x
       ELSE /\ f_x' = Some(Val(pose).x)
            /\ pc' = "read_y"
            /\ UNCHANGED <<debouncer, ret, pub, err, hist>>
    /\ UNCHANGED <<shared, config, has_image, f_pose, f_y, loop, car_position,
                   sel, calls>>

\* Line 162, second argument and the call: self.pose.pose.position.y is read and
\* get_closest_waypoint queries self.waypoint_tree, which is None before the
\* first path.
image_cb_read_y ==
    /\ pc = "read_y"
    /\ calls' = calls \cup {"get_closest_waypoint"}
    /\ IF pose = None
       THEN Raise(AttributeError) /\ UNCHANGED <<f_y, car_position>>
       ELSE /\ f_y' = Some(Val(pose).y)
            /\ IF waypoint_tree = None
               THEN Raise(AttributeError) /\ UNCHANGED car_position
               ELSE /\ car_position' =
                          Some(get_closest_waypoint(waypoint_tree, Val(f_x),
                                                    Val(pose).y))
                    /\ pc' = "select"
                    /\ UNCHANGED <<debouncer, ret, pub, err, hist>>
    /\ UNCHANGED <<shared, config, has_image, f_pose, f_x, loop, sel>>

\* What a selection saw and returned: the car position, the list and the path
\* it read, the lights it examined and its result r.
Seen(car, lts, wps, examined, r) ==
    [car |-> car, lights |-> lts, n |-> NumPoints(wps), examined |-> examined,
     light |-> r.light, diff |-> r.diff, idx |-> r.idx, classified |-> None]

\* Lines 168-179: the lookahead test and the classification, after a
\* selection that returned r.
Decide(seen, r) ==
    IF InLookahead(r.light, r.diff)
    THEN \E c \in get_classification :
            /\ calls' = calls \cup {"get_closest_light_in_front", "get_light_state"}
            /\ sel' = Some([seen EXCEPT !.classified = Some(c)])
            /\ IF c = Throws
               THEN Raise(ClassifierError)
               ELSE Return([wp |-> Val(r.idx), st |-> c])
    ELSE /\ calls' = calls \cup {"get_closest_light_in_front"}
         /\ sel' = Some(seen)
         /\ Return(NoStop)

\* Lines 166-179 with the selection in one step: the selection, the lookahead
\* test and the classification.
image_cb_select ==
    /\ pc = "select"
    /\ \E r \in {get_closest_light_in_front(Val(car_position), config, waypoints,
                                            lights, waypoint_tree)} :
          IF r.err # NoError
          THEN /\ Raise(r.err)
               /\ sel' = None
               /\ calls' = calls \cup {"get_closest_light_in_front"}
          ELSE Decide(Seen(Val(car_position), lights, waypoints,
                           {lights[k] : k \in 1..Len(lights)}, r), r)
    /\ f_x' = None
    /\ f_y' = None
    /\ UNCHANGED <<shared, config, has_image, f_pose, loop, car_position>>

\* Lines 166 and 182-185, the selection pass by pass: get_closest_light_in_front
\* is entered, diff starts at the length of the stored path and the loop takes
\* self.lights.
image_cb_enter ==
    /\ pc = "select"
    /\ calls' = calls \cup {"get_closest_light_in_front"}
    /\ f_x' = None
    /\ f_y' = None
    /\ IF waypoints = None
       THEN Raise(AttributeError) /\ UNCHANGED loop
       ELSE /\ loop' = Some([i |-> 1, lts |-> lights, wps |-> waypoints,
                             examined |-> {},
                             acc |-> [err |-> NoError, light |-> None,
                                      diff |-> NumPoints(waypoints), idx |-> None]])
            /\ pc' = "loop"
            /\ UNCHANGED <<debouncer, ret, pub, err, hist>>
    /\ UNCHANGED <<shared, config, has_image, f_pose, car_position, sel>>

\* Lines 185-194: one pass of the loop.
image_cb_loop ==
    /\ pc = "loop"
    /\ LET l == Val(loop)
           lts == LoopLights(l.lts, lights)
           acc == LoopBody(l.i, l.acc, Val(car_position), config, lts, waypoint_tree)
       IN  /\ l.i <= Len(lts)
           /\ IF acc.err # NoError
              THEN Raise(acc.err) /\ loop' = None
              ELSE /\ loop' = Some([l EXCEPT !.i = l.i + 1, !.acc = acc,
                                             !.examined = l.examined \cup {lts[l.i]}])
                   /\ UNCHANGED <<debouncer, ret, pub, err, hist, pc>>
    /\ UNCHANGED <<shared, config, has_image, f_pose, f_x, f_y, car_position,
                   sel, calls>>

\* Lines 195 and 166-179: the loop is over; the lookahead test and the
\* classification.
image_cb_finish ==
    /\ pc = "loop"
    /\ LET l == Val(loop)
       IN  /\ l.i > Len(LoopLights(l.lts, lights))
           /\ Decide(Seen(Val(car_position), l.lts, l.wps, l.examined, l.acc), l.acc)
    /\ loop' = None
    /\ UNCHANGED <<shared, config, has_image, f_pose, f_x, f_y, car_position>>

\* image_cb returns (or its exception reaches rospy, which logs it): the
\* frame's locals and its record are dropped.
image_cb_return ==
    /\ pc = "done"
    /\ pc' = "idle"
    /\ f_pose' = None
    /\ f_x' = None
    /\ f_y' = None
    /\ loop' = None
    /\ car_position' = None
    /\ sel' = None
    /\ ret' = None
    /\ pub' = <<>>
    /\ err' = NoError
    /\ calls' = {}
    /\ UNCHANGED <<shared, config, has_image, debouncer, hist>>

Next ==
    \/ pose_cb
    \/ waypoints_cb
    \/ traffic_cb
    \/ image_cb_start
    \/ image_cb_read_x
    \/ image_cb_read_y
    \/ image_cb_select
    \/ image_cb_return

Spec == Init /\ [][Next]_vars

\* The same node with the selection taken pass by pass, so that traffic_cb can
\* run between two passes of the loop; the stop lines are two.
InitLoop == Init /\ Len(config) = 2

NextLoop ==
    \/ pose_cb
    \/ waypoints_cb
    \/ traffic_cb
    \/ image_cb_start
    \/ image_cb_read_x
    \/ image_cb_read_y
    \/ image_cb_enter
    \/ image_cb_loop
    \/ image_cb_finish
    \/ image_cb_return

SpecLoop == InitLoop /\ [][NextLoop]_vars

\* The same node with frames that keep arriving: the camera publishes without
\* end and a handler that has started runs to its end.  One stop line.
InitLive == Init /\ config = <<s7>>

NextLive ==
    \/ pose_cb
    \/ waypoints_cb
    \/ traffic_cb
    \/ image_cb_start_live
    \/ image_cb_read_x
    \/ image_cb_read_y
    \/ image_cb_select
    \/ image_cb_return

SpecLive ==
    /\ InitLive
    /\ [][NextLive]_vars
    /\ WF_vars(image_cb_start_live)
    /\ WF_vars(image_cb_read_x)
    /\ WF_vars(image_cb_read_y)
    /\ WF_vars(image_cb_select)
    /\ WF_vars(image_cb_return)

----------------------------------------------------------------------------
(* Properties.  A frame's record (ret, pub, err, calls, sel, f_pose) is read *)
(* where the frame has ended, pc = "done".                                   *)

\* The value a settled observation r stands for.
Settled(r) == IF r.st = RED THEN r.wp ELSE -1

\* C1: every frame that reaches the debouncer publishes exactly one integer.
C1_OnePublishPerFrame ==
    (pc = "done" /\ err = NoError) => Len(pub) = 1

\* C2: the frame that is the THRESHOLD-th of a run of one observed color
\* publishes the value that observation stands for.
C2_UpdateOnThresholdFrame ==
    (pc = "done" /\ err = NoError /\ hist.runLen = STATE_COUNT_THRESHOLD)
        => pub = <<Settled(Val(ret))>>

\* C3: during the first THRESHOLD - 1 frames of a run of one observed color,
\* last_wp is what it was before the run and nothing else is published.
C3_ShortRunKeepsOutput ==
    hist.runLen \in 1..(STATE_COUNT_THRESHOLD - 1)
        => /\ last_wp = hist.runWp
           /\ \A i \in 1..Len(pub) : pub[i] = hist.runWp

\* C3 witness: after a committed GREEN, the second RED frame for stop line 7
\* still publishes the old -1.
C3_Witness ==
    /\ pc = "done"
    /\ hist.runLen = 2
    /\ last_state = GREEN
    /\ ret = Some([wp |-> 7, st |-> RED])
    /\ pub = <<-1>>

\* C4: while every frame observes another color than the frame before, last_wp
\* and last_state stay what they were before the alternation began and nothing
\* but that last_wp is published.
C4_AlternationNeverCommits ==
    hist.altLen >= 1
        => /\ last_wp = hist.altWp
           /\ last_state = hist.altLs
           /\ \A i \in 1..Len(pub) : pub[i] = hist.altWp

\* C4 witness: with 7 committed, the third frame of an alternation observes
\* GREEN for the same stop line and 7 stays.
C4_Witness ==
    /\ pc = "done"
    /\ hist.altLen >= 3
    /\ ret = Some([wp |-> 7, st |-> GREEN])
    /\ last_wp = 7
    /\ last_state = RED

\* C5: after a frame has committed v, every further consecutive frame with the
\* same (waypoint, color) publishes v and leaves last_wp = v and last_state.
C5_IdempotentAfterCommit ==
    /\ hist.cRun >= 1 => (last_wp = hist.cV /\ last_state = hist.cLs)
    /\ (hist.cRun = 2 /\ pc = "done") => pub = <<hist.cV>>

\* C5 witness: a frame repeating the committed (7, RED) publishes 7 again.
C5_Witness ==
    /\ pc = "done"
    /\ hist.cRun = 2
    /\ ret = Some([wp |-> 7, st |-> RED])
    /\ pub = <<7>>

\* The selection as the specification states it, for the lights and the car
\* position a selection s saw: the stop-line index of light i, its forward
\* distance d_i, the lights ahead, and the first of the nearest lights ahead.
LineIdx(i) == get_closest_waypoint(waypoint_tree, config[i].x, config[i].y)
Fwd(s, i) == LineIdx(i) - s.car
Ahead(s) == {i \in 1..Len(s.lights) : Fwd(s, i) >= 0}
Best(s) ==
    CHOOSE i \in Ahead(s) :
        \A j \in Ahead(s) : Fwd(s, i) < Fwd(s, j) \/ (Fwd(s, i) = Fwd(s, j) /\ i <= j)

\* C6: the selection returns no light behind the car, and whenever a light is
\* ahead it returns the first of the nearest lights ahead, with its distance
\* and its stop-line index.
C6_SelectsNearestAhead ==
    sel # None =>
        LET s == Val(sel)
        IN  /\ s.light # None =>
                  \E i \in Ahead(s) : s.light = Some(s.lights[i])
            /\ Ahead(s) # {} =>
                  /\ s.light = Some(s.lights[Best(s)])
                  /\ s.diff = Fwd(s, Best(s))
                  /\ s.idx = Some(LineIdx(Best(s)))

\* C7: when every light's stop line is behind the car, the selection returns
\* no light with the distance left at the length of the stored path, and
\* process_traffic_lights returns (-1, UNKNOWN) without a classification.
C7_AllBehindNoLight ==
    (sel # None /\ Ahead(Val(sel)) = {})
        => /\ Val(sel).light = None
           /\ Val(sel).idx = None
           /\ Val(sel).diff = Val(sel).n
           /\ ret = Some(NoStop)
           /\ err = NoError
           /\ "get_light_state" \notin calls

\* C7 witness: stop line 5, car at 50, a path of 60 points.
C7_Witness ==
    /\ sel # None
    /\ config = <<s5>>
    /\ Len(Val(sel).lights) = 1
    /\ LineIdx(1) = 5
    /\ Val(sel).car = 50
    /\ Val(sel).n = 60
    /\ Val(sel).light = None
    /\ ret = Some(NoStop)

\* C8: with a known pose, the classifier is asked, and its color returned with
\* the stop-line index, exactly when a light was selected less than
\* WAYPOINT_LOOKAHEAD ahead; otherwise (-1, UNKNOWN) is returned and the
\* classifier is not called.
C8_LookaheadWindow ==
    sel # None =>
        LET s == Val(sel)
        IN  IF s.light # None /\ s.diff < WAYPOINT_LOOKAHEAD
            THEN /\ "get_light_state" \in calls
                 /\ s.classified # None
                 /\ Val(s.classified) # Throws
                       => ret = Some([wp |-> Val(s.idx), st |-> Val(s.classified)])
            ELSE /\ "get_light_state" \notin calls
                 /\ s.classified = None
                 /\ ret = Some(NoStop)
                 /\ err = NoError

\* C8 witness: the selected light is 150 points ahead.
C8_Witness ==
    /\ sel # None
    /\ Val(sel).light # None
    /\ Val(sel).diff = 150
    /\ ret = Some(NoStop)
    /\ "get_light_state" \notin calls

\* C9: a frame that finds no pose returns (-1, UNKNOWN) at once: no waypoint
\* query, no selection, no classification, whatever the path and the lights.
C9_NoPoseNoWork ==
    f_pose = None =>
        /\ pc \in {"idle", "done"}
        /\ pc = "done" =>
              /\ ret = Some(NoStop)
              /\ err = NoError
              /\ calls = {}
              /\ car_position = None
              /\ sel = None

\* C9 witness: no pose, with the tree built and lights delivered.
C9_Witness ==
    /\ pc = "done"
    /\ f_pose = None
    /\ waypoint_tree # None
    /\ lights # <<>>
    /\ ret = Some(NoStop)

\* C10: a frame processed while the pose, the path or the lights are missing
\* yields (-1, UNKNOWN) and does not fail.
C10_ColdStartTolerated ==
    (pc = "done" /\ (\/ f_pose = None
                     \/ waypoint_tree = None
                     \/ (sel # None /\ Val(sel).lights = <<>>)))
        => (err = NoError /\ ret = Some(NoStop))

\* C11: a frame whose classification fails is handled as a frame that observed
\* UNKNOWN: image_cb returns normally, with the debouncer run on UNKNOWN.
C11_ClassifierFailureIsUnknown ==
    (pc = "done" /\ sel # None /\ Val(sel).classified = Some(Throws))
        => /\ err = NoError
           /\ ret # None
           /\ Val(ret).st = UNKNOWN

\* C12: once the index is built, no step changes the stored path, the 2D point
\* list or the index.
C12_PathSetOnce ==
    [][waypoint_tree # None
          => /\ waypoints' = waypoints
             /\ waypoints_2d' = waypoints_2d
             /\ waypoint_tree' = waypoint_tree]_vars

\* C13: with a known pose and a built index, a frame that finds the light list
\* empty or the stop-line list empty returns (-1, UNKNOWN) without error.
C13_EmptyListsNoLight ==
    (pc = "done" /\ car_position # None
                 /\ (config = <<>> \/ (sel # None /\ Val(sel).lights = <<>>)))
        => (err = NoError /\ ret = Some(NoStop))

\* C15: the lights one selection examines are those of one delivered array, the
\* array self.lights held when the loop began, each of them once, and the light
\* returned is one of them, whatever traffic_cb stores meanwhile.
C15_OneSnapshotPerFrame ==
    /\ loop # None =>
          LET l == Val(loop)
          IN  /\ l.i <= Len(l.lts) + 1
              /\ l.examined = {l.lts[k] : k \in 1..(l.i - 1)}
              /\ l.acc.light # None => Val(l.acc.light) \in l.examined
    /\ sel # None =>
          LET s == Val(sel)
          IN  /\ s.examined = {s.lights[k] : k \in 1..Len(s.lights)}
              /\ \A a \in s.examined : a.msg = Len(s.lights)
              /\ s.light # None => Val(s.light) \in s.examined

\* C15 witness: after the first pass over an array of two lights, traffic_cb has
\* stored another array and the loop still holds the first.
C15_Witness ==
    /\ pc = "loop"
    /\ Val(loop).i = 2
    /\ Len(Val(loop).lts) = 2
    /\ lights # Val(loop).lts
    /\ Val(loop).examined = {Val(loop).lts[1]}

\* C16: once more than THRESHOLD consecutive frames have observed UNKNOWN,
\* last_wp is -1, and each further frame of the run, a frame whose
\* classification failed being one of them, publishes -1.
C16_UnknownRunCommitsNoStop ==
    (hist.runLen > STATE_COUNT_THRESHOLD /\ hist.prevObs = Some(UNKNOWN))
        => /\ last_wp = -1
           /\ last_state = UNKNOWN
           /\ (pc = "done" /\ err \in {NoError, ClassifierError}) => pub = <<-1>>

\* The part of C16 for the frames that returned UNKNOWN (no pose, no light in
\* the window, a classifier answering UNKNOWN).
ReturnedUnknownRunCommitsNoStop ==
    (hist.runLen > STATE_COUNT_THRESHOLD /\ hist.prevObs = Some(UNKNOWN))
        => /\ last_wp = -1
           /\ last_state = UNKNOWN
           /\ (pc = "done" /\ err = NoError) => pub = <<-1>>

\* A run of returned UNKNOWN that began with stop line 7 published.
ReturnedUnknownRunWitness ==
    /\ pc = "done"
    /\ hist.runLen = STATE_COUNT_THRESHOLD + 1
    /\ hist.prevObs = Some(UNKNOWN)
    /\ hist.runWp = 7
    /\ pub = <<-1>>

\* C17: last_wp differs from -1 only while last_state is RED; a published value
\* other than -1 is last_wp under last_state = RED; and a committing frame whose
\* color is not RED stores and publishes -1.
C17_StopIndexOnlyForRed ==
    /\ last_wp # -1 => last_state = RED
    /\ \A i \in 1..Len(pub) :
          pub[i] # -1 => (last_state = RED /\ pub[i] = last_wp)
    /\ (pc = "done" /\ ret # None /\ hist.cRun >= 1 /\ Val(ret).st # RED)
          => (pub = <<-1>> /\ last_wp = -1 /\ last_state = Val(ret).st)

\* C17 witness: with stop line 7 in the window, a committing frame that
\* observed GREEN publishes -1.
C17_Witness ==
    /\ pc = "done"
    /\ ret = Some([wp |-> 7, st |-> GREEN])
    /\ hist.cRun >= 1
    /\ last_state = GREEN
    /\ pub = <<-1>>

\* C18: the x and the y handed to get_closest_waypoint are those of the pose
\* that was tested for presence.
C18_OnePosePerFrame ==
    f_y # None => [x |-> Val(f_x), y |-> Val(f_y)] = Val(f_pose)

\* C19: last_wp and every published value is -1 or an index of the path the
\* tree was built from.
C19_PublishedIndexValid ==
    LET Valid(v) == \/ v = -1
                    \/ /\ waypoint_tree # None
                       /\ v \in 0..(NumPoints(waypoint_tree) - 1)
    IN  /\ Valid(last_wp)
        /\ \A i \in 1..Len(pub) : Valid(pub[i])

\* C19 witness: on a tree of 60 points the last point, 59, is committed and
\* published as the stop index.
C19_Witness ==
    /\ pc = "done"
    /\ waypoint_tree = Some(60)
    /\ last_wp = 59
    /\ pub = <<59>>

\* The observations a frame can make with the one stop line of InitLive.
Observations == {NoStop} \cup {[wp |-> 7, st |-> c] : c \in Colors}

\* Every frame that ends observes o / publishes the value o stands for.
Observes(o) == pc = "done" => (err = NoError /\ ret = Some(o))
Publishes(o) == pc = "done" => pub = <<Settled(o)>>

\* C20: if from some frame on every frame observes the same (w, c), then from
\* some frame on every frame publishes the value (w, c) stands for.
C20_ConstantInputSettles ==
    \A o \in Observations : <>[]Observes(o) => <>[]Publishes(o)

\* C20 witness: a frame far into a run of (7, RED) publishes 7.
C20_Witness ==
    /\ pc = "done"
    /\ state_count = MaxCount
    /\ hist.runLen = MaxCount
    /\ ret = Some([wp |-> 7, st |-> RED])
    /\ pub = <<7>>

====
